---- MODULE Spec2Model ----
(***************************************************************************)
(* Invoice lifecycle and payment reconciliation of billflow-backend.       *)
(*                                                                         *)
(* The durable store (invoices with their items, payments), the Redis      *)
(* cache of invoice projections and the RabbitMQ publisher are the state.  *)
(* Money is counted in hundredths of a currency unit (the Numeric(10, 2)   *)
(* columns); calculate_invoice_totals works in ten-thousandths, so that    *)
(* the Decimal arithmetic of the service is exact, and the store rounds    *)
(* to hundredths when a row is written.                                    *)
(*                                                                         *)
(* Spec      every handler runs as one step (requests one at a time).      *)
(* SpecConc  record_payment runs as interleaved steps of several requests, *)
(*           each with its own session, and a request can die at any step. *)
(* SpecNumbers create_invoice as two steps (number, commit) of several    *)
(*           requests, and delete.                                         *)
(* SpecRace  send_invoice and the sweep as interleaved steps, beside       *)
(*           mark_as_paid, record_payment and update.                      *)
(* SpecSweep payments with the sweep run again and again.                  *)
(* SpecCache the summary read through its cache entry.                     *)
(* SpecWorker the loop of the payment worker, with failing calls.          *)
(* SpecSteps the invoice handlers one awaited call per step, with failing  *)
(*           calls.                                                        *)
(* SpecCalc  calculate_invoice_totals applied to item lists, tax rates and *)
(*           discounts of bounded sets.                                    *)
(* SpecTotals create and update with tax rates, discounts and clients in  *)
(*           the requests, and the calculator.                             *)
(***************************************************************************)
EXTENDS Integers, Sequences, FiniteSets, TLC

(* ------------------------------ bounds -------------------------------- *)
MaxInvoices == 1
MaxPayments == 2
MaxDay == 2
NumProcs == 2
MaxItems == 2
MaxWorkerDay == 8

(* --------------------------- input domains ---------------------------- *)
Users == {"u1", "u2"}

\* clients and their owners; the email column of c2 is the empty string
Clients == {"c1", "c2"}
ClientOwner == [c \in Clients |-> IF c = "c1" THEN "u1" ELSE "u2"]
ClientHasEmail == [c \in Clients |-> c = "c1"]

Statuses == {"draft", "sent", "paid", "overdue", "cancelled"}

Days == 1..MaxDay
TaxRates == {10}
Discounts == {0}
PayAmounts == {30, 55}

\* request item lists (InvoiceItemCreate: quantity > 0, unit_price > 0)
ItemLists ==
  { <<[quantity |-> 1, unit_price |-> 50]>>,
    <<[quantity |-> 2, unit_price |-> 50]>> }

\* Optional[T]: <<>> is None, <<v>> is a value
None == <<>>
Some(v) == <<v>>
Opt(S) == {None} \cup {Some(v) : v \in S}

\* arguments of the calculator: items 2 x 50.00, 1 x 0.55 and 3 x 0.33, in
\* lists of at most MaxItems; tax rates in percent; discounts 0, 0.50, 150.00
CalcItems ==
  { [quantity |-> 2, unit_price |-> 5000],
    [quantity |-> 1, unit_price |-> 55],
    [quantity |-> 3, unit_price |-> 33] }
CalcItemLists == UNION {[1..n -> CalcItems] : n \in 0..MaxItems}
CalcRates == {0, 7, 10}
CalcDiscounts == {0, 50, 15000}

(* ------------------------------ state --------------------------------- *)
VARIABLES
  invoices,   \* store: invoice id -> row (with its items)
  payments,   \* store: payment id -> row
  nextInv,    \* ids are fresh (uuid4): next unused invoice id
  nextPay,    \* next unused payment id
  cache,      \* redis: "invoice:{id}" -> Optional projection
  today,      \* date.today() / datetime.utcnow()
  last,       \* outcome of the last handler call
  rp,         \* SpecConc: the record_payment requests in flight
  ct,         \* SpecCalc: the last call of calculate_invoice_totals
  summary,    \* redis: "invoice_summary:{user}" -> Optional summary
  wk,         \* SpecWorker: the payment worker process
  rq          \* SpecSteps: the invoice request in flight

vars == <<invoices, payments, nextInv, nextPay, cache, today, last, rp, ct,
          summary, wk, rq>>

InvoiceIds == 1..MaxInvoices

\* the ids of the invoices concurrent creates can store, one per request
ConcInvoiceIds == 1..NumProcs

\* the ids an "invoice:{id}" key can carry
CacheIds == InvoiceIds \cup ConcInvoiceIds
PaymentIds == 1..MaxPayments
Procs == 1..NumProcs

(* ------------------------- monetary calculator ------------------------ *)
SumItemsHeadOnly(items) ==
  IF items = <<>> THEN 0 ELSE Head(items).quantity * Head(items).unit_price

RECURSIVE SumItems(_)
SumItems(items) ==
  IF items = <<>> THEN 0
  ELSE Head(items).quantity * Head(items).unit_price + SumItems(Tail(items))

calculate_invoice_totals_clamping_tax_only(items, tax_rate, discount) ==
  LET subtotal == SumItems(items) * 100
      diff == subtotal - discount * 100
      discounted_amount == IF diff < 0 THEN 0 ELSE diff
      tax_amount == (discounted_amount * tax_rate) \div 100
      total_amount == diff + tax_amount
  IN [subtotal |-> subtotal, tax_amount |-> tax_amount, total_amount |-> total_amount]

calculate_invoice_totals_unclamped(items, tax_rate, discount) ==
  LET subtotal == SumItems(items) * 100
      discounted_amount == subtotal - discount * 100
      tax_amount == (discounted_amount * tax_rate) \div 100
      total_amount == discounted_amount + tax_amount
  IN [subtotal |-> subtotal, tax_amount |-> tax_amount, total_amount |-> total_amount]

\* values in ten-thousandths: hundredths * 100
calculate_invoice_totals(items, tax_rate, discount) ==
  LET subtotal == SumItems(items) * 100
      diff == subtotal - discount * 100
      discounted_amount == IF diff < 0 THEN 0 ELSE diff
      tax_amount == (discounted_amount * tax_rate) \div 100
      total_amount == discounted_amount + tax_amount
  IN [subtotal |-> subtotal, tax_amount |-> tax_amount, total_amount |-> total_amount]

\* a Numeric(_, 2) column keeps two decimals, rounding half away from zero
Numeric2(x) == (x + 50) \div 100

ItemRows(items) ==
  [k \in 1..Len(items) |->
     [quantity |-> items[k].quantity,
      unit_price |-> items[k].unit_price,
      total |-> items[k].quantity * items[k].unit_price]]

(* ------------------------------ publisher ----------------------------- *)
\* exchanges declared by RabbitMQClient.connect
Exchanges == {"invoices", "emails"}

Event(exchange, routing_key, invoice_id, user_id, amount, total_amount, days_overdue, priority) ==
  [exchange |-> exchange, routing_key |-> routing_key, invoice_id |-> invoice_id,
   user_id |-> user_id, amount |-> amount, total_amount |-> total_amount,
   days_overdue |-> days_overdue, priority |-> priority]

DefaultPriority == 5

\* RabbitMQClient.publish: the messages handed to the exchange by one call
publish(ev) ==
  IF ev.exchange \notin Exchanges THEN <<>> ELSE <<ev>>

(* ------------------------------- helpers ------------------------------ *)
OwnedByAnyUser(i, u) == i \in DOMAIN invoices

\* the select of an invoice by id and user_id finds a row
Owned(i, u) == i \in DOMAIN invoices /\ invoices[i].user_id = u

PaymentsOf(pm, i) == {k \in DOMAIN pm : pm[k].invoice_id = i}

RECURSIVE SumAmounts(_, _)
SumAmounts(pm, ks) ==
  IF ks = {} THEN 0
  ELSE LET k == CHOOSE x \in ks : TRUE
       IN pm[k].amount + SumAmounts(pm, ks \ {k})

SumPaid(pm, i) == SumAmounts(pm, PaymentsOf(pm, i))

Outcome(op, user, inv, result, published, deleted, patterns, before) ==
  [op |-> op, user |-> user, inv |-> inv, result |-> result,
   published |-> published, deleted |-> deleted, patterns |-> patterns,
   before |-> before, returned |-> None]

NoCall == Outcome("none", "u1", 0, "ok", <<>>, {}, {}, None)

Put(f, k, v) == [x \in DOMAIN f \cup {k} |-> IF x = k THEN v ELSE f[x]]
Drop(f, k) == [x \in DOMAIN f \ {k} |-> f[x]]

\* a record_payment request: its position, its arguments, what its session
\* holds (the invoice as loaded, the sum computed, the pending status change)
IdleProc == [pc |-> "idle", user |-> "u1", invoice_id |-> 0, amount |-> 0,
             total_amount |-> 0, total_paid |-> 0, marks |-> FALSE,
             published |-> <<>>, result |-> "none", pending |-> None]

\* no call of the calculator yet
NoTotals == [items |-> <<>>, perm |-> <<>>, tax_rate |-> 0, discount |-> 0,
             out |-> None, out_perm |-> None]

\* no summary cached for any user
NoSummary == [u \in Users |-> None]

\* the payment worker process before PaymentWorker.start; round holds the
\* events published in the current round of its loop, selected the rows a
\* sweep in flight has loaded
NewWorker == [pc |-> "start", round |-> <<>>, selected |-> None]

\* no invoice request in flight
IdleRequest == [pc |-> "idle", at |-> 0, op |-> "none", user |-> "u1",
                invoice_id |-> 0, pending |-> None, event |-> None,
                committed |-> FALSE, deleted |-> {}, patterns |-> {},
                published |-> <<>>, result |-> "none"]

(* -------------------------------- Init -------------------------------- *)
Init ==
  /\ invoices = <<>>
  /\ payments = <<>>
  /\ nextInv = 1
  /\ nextPay = 1
  /\ cache = [i \in CacheIds |-> None]
  /\ today = 1
  /\ last = NoCall
  /\ rp = [p \in Procs |-> IdleProc]
  /\ ct = NoTotals
  /\ summary = NoSummary
  /\ wk = NewWorker
  /\ rq = IdleRequest

(* ------------------------- InvoiceService ----------------------------- *)
\* InvoiceCreate bodies (client_id, due_date, status, tax_rate, discount,
\* items), the item list possibly empty
CreateRequests ==
  [client_id : Clients, due_date : Days, status : Statuses, tax_rate : TaxRates,
   discount : Discounts, items : ItemLists \cup {<<>>}]

\* the constraints of the InvoiceCreate schema, checked before the handler
ValidInvoiceCreate(req) ==
  /\ Len(req.items) >= 1
  /\ \A k \in 1..Len(req.items) :
       req.items[k].quantity > 0 /\ req.items[k].unit_price > 0
  /\ req.tax_rate >= 0
  /\ req.discount >= 0

\* InvoiceUpdate bodies: every field optional, drawn from the given sets
UpdateRequests(statuses, rates, discounts, days, clients, lists) ==
  [status : Opt(statuses), tax_rate : Opt(rates), discount : Opt(discounts),
   due_date : Opt(days), client_id : Opt(clients), items : Opt(lists)]

\* the updates of Spec set the status, the items, both or neither
LifecycleUpdates == UpdateRequests(Statuses, {}, {}, {}, {}, ItemLists)

\* seconds an "invoice:{id}" entry lives
InvoiceCacheTtl == 1800

\* the projection get_invoice writes under "invoice:{id}"
Projection(i, inv) ==
  [id |-> i, user_id |-> inv.user_id, invoice_number |-> inv.invoice_number,
   status |-> inv.status, total_amount |-> inv.total_amount]

get_invoice_serving_cache(cached, u, i) ==
  LET hit == cached # None /\ cached[1].value.user_id = u
      invoice == IF Owned(i, u) THEN Some(invoices[i]) ELSE None
  IN [returned |-> IF hit THEN Some(cached[1].value) ELSE invoice,
      entry |-> IF invoice # None /\ ~hit
                THEN Some([value |-> Projection(i, invoice[1]),
                           expire |-> InvoiceCacheTtl])
                ELSE cached]

\* get_invoice with `cached` the entry read from the cache: the entry is
\* looked at and dropped (the branch is `pass`), the store is read scoped to
\* the caller, and a row found is written to the cache
get_invoice(cached, u, i) ==
  LET hit == cached # None /\ cached[1].value.user_id = u
      invoice == IF Owned(i, u) THEN Some(invoices[i]) ELSE None
  IN [returned |-> invoice,
      entry |-> IF invoice # None
                THEN Some([value |-> Projection(i, invoice[1]),
                           expire |-> InvoiceCacheTtl])
                ELSE cached]

\* the cache after a call of get_invoice
CacheAfterGet(i, u) ==
  [cache EXCEPT ![i] = get_invoice(cache[i], u, i).entry]

GetInvoice(u, i) ==
  /\ cache' = CacheAfterGet(i, u)
  /\ last' = [Outcome("getInvoice", u, i, IF Owned(i, u) THEN "ok" ELSE "None",
                      <<>>, {}, {},
                      IF Owned(i, u) THEN Some(invoices[i].status) ELSE None)
               EXCEPT !.returned = get_invoice(cache[i], u, i).returned]
  /\ UNCHANGED <<invoices, payments, nextInv, nextPay, today, rp, ct, summary, wk, rq>>

ClientBelongsTo(c, u) == ClientOwner[c] = u

\* the suffixes random.randint draws on a collision (two of its values)
Suffixes == {10, 11}

\* the numbers the generator can return: "INV-YYYYMM-" is left out (the
\* days of the model lie in one month), seq is the count of the user's
\* invoices plus one, and a number already stored gets a random suffix
generate_invoice_number(u) ==
  LET count == Cardinality({i \in DOMAIN invoices : invoices[i].user_id = u})
      plain == [seq |-> count + 1, suffix |-> None]
  IN IF \E i \in DOMAIN invoices : invoices[i].invoice_number = plain
     THEN {[seq |-> count + 1, suffix |-> Some(n)] : n \in Suffixes}
     ELSE {plain}

NewInvoiceWithRequestStatus(u, req, invoice_number) ==
  LET totals == calculate_invoice_totals(req.items, req.tax_rate, req.discount)
  IN [user_id |-> u, client_id |-> req.client_id, invoice_number |-> invoice_number,
      due_date |-> req.due_date,
      status |-> req.status, tax_rate |-> req.tax_rate, discount |-> req.discount,
      subtotal |-> Numeric2(totals.subtotal),
      tax_amount |-> Numeric2(totals.tax_amount),
      total_amount |-> Numeric2(totals.total_amount),
      sent_at |-> None, paid_at |-> None,
      items |-> ItemRows(req.items)]

NewInvoice(u, req, invoice_number) ==
  LET totals == calculate_invoice_totals(req.items, req.tax_rate, req.discount)
  IN [user_id |-> u, client_id |-> req.client_id, invoice_number |-> invoice_number,
      due_date |-> req.due_date,
      status |-> "draft", tax_rate |-> req.tax_rate, discount |-> req.discount,
      subtotal |-> Numeric2(totals.subtotal),
      tax_amount |-> Numeric2(totals.tax_amount),
      total_amount |-> Numeric2(totals.total_amount),
      sent_at |-> None, paid_at |-> None,
      items |-> ItemRows(req.items)]

\* create_invoice. The handler names its parameter invoice and reads the
\* body as invoice_data, and it calls the number generator (lines 24-47) as
\* generate_invoice_number: the model follows the body, with req the
\* InvoiceCreate body and the generator the one of lines 24-47.
CreateInvoice(u, req) ==
  /\ nextInv <= MaxInvoices
  /\ IF ~ValidInvoiceCreate(req)
     THEN /\ last' = Outcome("create", u, 0, "ValidationError", <<>>, {}, {}, None)
          /\ UNCHANGED <<invoices, nextInv>>
     ELSE IF ~ClientBelongsTo(req.client_id, u)
     THEN /\ last' = Outcome("create", u, 0, "BadRequestException", <<>>, {}, {}, None)
          /\ UNCHANGED <<invoices, nextInv>>
     ELSE \E invoice_number \in generate_invoice_number(u) :
          LET inv == NewInvoice(u, req, invoice_number)
          IN /\ invoices' = Put(invoices, nextInv, inv)
             /\ nextInv' = nextInv + 1
             /\ last' = Outcome("create", u, nextInv, "ok",
                          publish(Event("invoices", "invoice.created", nextInv, u,
                                        None, Some(inv.total_amount), None, DefaultPriority)),
                          {}, {u}, None)
  /\ UNCHANGED <<payments, nextPay, cache, today, rp, ct, summary, wk, rq>>

UpdateRefusedOnlyPaid(status) == status = "paid"

\* update_invoice refuses these statuses
UpdateRefused(status) == status \in {"paid", "cancelled"}

\* setattr over the fields the request sets (items excluded)
Patched(inv, upd) ==
  [inv EXCEPT
     !.status = IF upd.status = None THEN @ ELSE upd.status[1],
     !.tax_rate = IF upd.tax_rate = None THEN @ ELSE upd.tax_rate[1],
     !.discount = IF upd.discount = None THEN @ ELSE upd.discount[1],
     !.due_date = IF upd.due_date = None THEN @ ELSE upd.due_date[1],
     !.client_id = IF upd.client_id = None THEN @ ELSE upd.client_id[1]]

WithItemsAppended(inv, upd) ==
  IF upd.items = None THEN inv
  ELSE LET totals == calculate_invoice_totals(upd.items[1], inv.tax_rate, inv.discount)
       IN [inv EXCEPT
             !.items = @ \o ItemRows(upd.items[1]),
             !.subtotal = Numeric2(totals.subtotal),
             !.tax_amount = Numeric2(totals.tax_amount),
             !.total_amount = Numeric2(totals.total_amount)]

\* items replaced and totals recalculated only when the request carries items
WithItems(inv, upd) ==
  IF upd.items = None THEN inv
  ELSE LET totals == calculate_invoice_totals(upd.items[1], inv.tax_rate, inv.discount)
       IN [inv EXCEPT
             !.items = ItemRows(upd.items[1]),
             !.subtotal = Numeric2(totals.subtotal),
             !.tax_amount = Numeric2(totals.tax_amount),
             !.total_amount = Numeric2(totals.total_amount)]

UpdateInvoice(u, i, upd) ==
  /\ IF ~Owned(i, u)
     THEN /\ last' = Outcome("update", u, i, "None", <<>>, {}, {}, None)
          /\ UNCHANGED <<invoices, cache>>
     ELSE IF UpdateRefused(invoices[i].status)
     THEN /\ last' = Outcome("update", u, i, "BadRequestException", <<>>, {}, {},
                             Some(invoices[i].status))
          /\ cache' = CacheAfterGet(i, u)
          /\ UNCHANGED invoices
     ELSE LET inv == WithItems(Patched(invoices[i], upd), upd)
          IN /\ invoices' = [invoices EXCEPT ![i] = inv]
             /\ cache' = [cache EXCEPT ![i] = None]
             /\ last' = Outcome("update", u, i, "ok",
                          publish(Event("invoices", "invoice.updated", i, u,
                                        None, None, None, DefaultPriority)),
                          {i}, {u}, Some(invoices[i].status))
  /\ UNCHANGED <<payments, nextInv, nextPay, today, rp, ct, summary, wk, rq>>

DeleteRefusedNever(status) == FALSE

\* delete_invoice refuses this status
DeleteRefused(status) == status = "paid"

DeleteInvoice(u, i) ==
  /\ IF ~Owned(i, u)
     THEN /\ last' = Outcome("delete", u, i, "False", <<>>, {}, {}, None)
          /\ UNCHANGED <<invoices, payments, cache>>
     ELSE IF DeleteRefused(invoices[i].status)
     THEN /\ last' = Outcome("delete", u, i, "BadRequestException", <<>>, {}, {},
                             Some(invoices[i].status))
          /\ cache' = CacheAfterGet(i, u)
          /\ UNCHANGED <<invoices, payments>>
     ELSE /\ invoices' = Drop(invoices, i)
          \* payments.invoice_id is declared ondelete CASCADE
          /\ payments' = [k \in DOMAIN payments \ PaymentsOf(payments, i) |-> payments[k]]
          /\ cache' = [cache EXCEPT ![i] = None]
          /\ last' = Outcome("delete", u, i, "True", <<>>, {i}, {u},
                             Some(invoices[i].status))
  /\ UNCHANGED <<nextInv, nextPay, today, rp, ct, summary, wk, rq>>

HighPriority == 8

SendRefusedOnlyWithoutEmail(status, client_id) == ~ClientHasEmail[client_id]

\* send_invoice refuses an invoice that is not a draft or whose client has
\* no email
SendRefused(status, client_id) ==
  status # "draft" \/ ~ClientHasEmail[client_id]

SendInvoice(u, i) ==
  /\ IF ~Owned(i, u)
     THEN /\ last' = Outcome("send", u, i, "NotFoundException", <<>>, {}, {}, None)
          /\ UNCHANGED <<invoices, cache>>
     ELSE IF SendRefused(invoices[i].status, invoices[i].client_id)
     THEN /\ last' = Outcome("send", u, i, "BadRequestException", <<>>, {}, {},
                             Some(invoices[i].status))
          /\ cache' = CacheAfterGet(i, u)
          /\ UNCHANGED invoices
     ELSE /\ invoices' = [invoices EXCEPT ![i].status = "sent", ![i].sent_at = Some(today)]
          /\ cache' = [cache EXCEPT ![i] = None]
          /\ last' = Outcome("send", u, i, "ok",
                       publish(Event("emails", "email.invoice_sent", i, u,
                                     None, Some(invoices[i].total_amount), None, HighPriority)),
                       {i}, {}, Some(invoices[i].status))
  /\ UNCHANGED <<payments, nextInv, nextPay, today, rp, ct, summary, wk, rq>>

AlreadyPaidNeverChecked(status) == FALSE

\* mark_as_paid refuses this status
AlreadyPaid(status) == status = "paid"

MarkAsPaid(u, i) ==
  /\ IF ~Owned(i, u)
     THEN /\ last' = Outcome("markPaid", u, i, "NotFoundException", <<>>, {}, {}, None)
          /\ UNCHANGED <<invoices, cache>>
     ELSE IF AlreadyPaid(invoices[i].status)
     THEN /\ last' = Outcome("markPaid", u, i, "BadRequestException", <<>>, {}, {},
                             Some(invoices[i].status))
          /\ cache' = CacheAfterGet(i, u)
          /\ UNCHANGED invoices
     ELSE /\ invoices' = [invoices EXCEPT ![i].status = "paid", ![i].paid_at = Some(today)]
          /\ cache' = [cache EXCEPT ![i] = None]
          /\ last' = Outcome("markPaid", u, i, "ok",
                       publish(Event("invoices", "invoice.paid", i, u,
                                     Some(invoices[i].total_amount), None, None, DefaultPriority)),
                       {i}, {u}, Some(invoices[i].status))
  /\ UNCHANGED <<payments, nextInv, nextPay, today, rp, ct, summary, wk, rq>>

(* ------------------------- PaymentService ----------------------------- *)
PaymentRefusedNever(status) == FALSE

\* record_payment refuses this status
PaymentRefused(status) == status = "cancelled"

OverpaysNeverChecked(total_paid, total_amount) == FALSE

\* record_payment's over-payment check
Overpays(total_paid, total_amount) == total_paid > total_amount

\* record_payment's full-payment test
FullyPaid(total_paid, total_amount) == total_paid >= total_amount

PaymentCompleted(i, u, amount, total_amount) ==
  Event("payments", "payment.completed", i, u, Some(amount), Some(total_amount),
        None, DefaultPriority)

RecordPayment(u, i, amount) ==
  /\ IF ~Owned(i, u)
     THEN /\ last' = Outcome("recordPayment", u, i, "NotFoundException", <<>>, {}, {}, None)
          /\ UNCHANGED <<invoices, payments, nextPay>>
     ELSE IF PaymentRefused(invoices[i].status)
     THEN /\ last' = Outcome("recordPayment", u, i, "BadRequestException", <<>>, {}, {},
                             Some(invoices[i].status))
          /\ UNCHANGED <<invoices, payments, nextPay>>
     ELSE LET total_paid == SumPaid(payments, i) + amount
              total_amount == invoices[i].total_amount
          IN IF Overpays(total_paid, total_amount)
             THEN /\ last' = Outcome("recordPayment", u, i, "BadRequestException", <<>>,
                                     {}, {}, Some(invoices[i].status))
                  /\ UNCHANGED <<invoices, payments, nextPay>>
             ELSE /\ nextPay <= MaxPayments
                  /\ payments' = Put(payments, nextPay, [invoice_id |-> i, amount |-> amount])
                  /\ nextPay' = nextPay + 1
                  /\ IF FullyPaid(total_paid, total_amount)
                     THEN /\ invoices' = [invoices EXCEPT ![i].status = "paid",
                                                          ![i].paid_at = Some(today)]
                          /\ last' = Outcome("recordPayment", u, i, "ok",
                                       publish(PaymentCompleted(i, u, amount, total_amount)),
                                       {}, {}, Some(invoices[i].status))
                     ELSE /\ UNCHANGED invoices
                          /\ last' = Outcome("recordPayment", u, i, "ok", <<>>, {}, {},
                                             Some(invoices[i].status))
  /\ UNCHANGED <<nextInv, cache, today, rp, ct, summary, wk, rq>>

\* get_invoice_payments: the ownership check, then the payments of the invoice
GetInvoicePayments(u, i) ==
  /\ last' = IF ~Owned(i, u)
             THEN Outcome("listPayments", u, i, "NotFoundException", <<>>, {}, {}, None)
             ELSE [Outcome("listPayments", u, i, "ok", <<>>, {}, {},
                           Some(invoices[i].status))
                   EXCEPT !.returned = Some(PaymentsOf(payments, i))]
  /\ UNCHANGED <<invoices, payments, nextInv, nextPay, cache, today, rp, ct, summary, wk, rq>>

DropsBelowOrReaches(total_remaining, total_amount) == total_remaining <= total_amount

\* delete_payment's test on the payments that remain
DropsBelow(total_remaining, total_amount) == total_remaining < total_amount

PaymentFoundAnyOwner(k, u) == k \in DOMAIN payments

\* delete_payment's select: the payment joined with an invoice of the caller
PaymentFound(k, u) ==
  k \in DOMAIN payments /\ Owned(payments[k].invoice_id, u)

DeletePayment(u, k) ==
  /\ IF ~PaymentFound(k, u)
     THEN /\ last' = Outcome("deletePayment", u, 0, "False", <<>>, {}, {}, None)
          /\ UNCHANGED <<invoices, payments>>
     ELSE LET i == payments[k].invoice_id
              total_remaining == SumAmounts(payments, PaymentsOf(payments, i) \ {k})
          IN /\ invoices' =
                  IF invoices[i].status = "paid"
                     /\ DropsBelow(total_remaining, invoices[i].total_amount)
                  THEN [invoices EXCEPT ![i].status = "sent", ![i].paid_at = None]
                  ELSE invoices
             /\ payments' = Drop(payments, k)
             /\ last' = Outcome("deletePayment", u, i, "True", <<>>, {}, {},
                                Some(invoices[i].status))
  /\ UNCHANGED <<nextInv, nextPay, cache, today, rp, ct, summary, wk, rq>>

(* --------------------------- overdue sweep ---------------------------- *)
ReminderPriority == 9

SweepSelectsAnyStatus(inv) == inv.due_date < today

SweepSelectsDueToday(inv) == inv.status = "sent" /\ inv.due_date <= today

SweepSelectsOnlyMailed(inv) ==
  inv.status = "sent" /\ inv.sent_at # None /\ inv.due_date < today

\* the rows update_overdue_invoices selects
SweepSelects(inv) == inv.status = "sent" /\ inv.due_date < today

Reminder(i) ==
  Event("emails", "email.payment_reminder", i, invoices[i].user_id, None,
        Some(invoices[i].total_amount), Some(today - invoices[i].due_date),
        ReminderPriority)

RECURSIVE Reminders(_)
Reminders(ids) ==
  IF ids = {} THEN <<>>
  ELSE LET i == CHOOSE x \in ids : \A y \in ids : x <= y
       IN publish(Reminder(i)) \o Reminders(ids \ {i})

UpdateOverdueInvoices ==
  LET overdue_invoices == {i \in DOMAIN invoices : SweepSelects(invoices[i])}
  IN /\ invoices' = [i \in DOMAIN invoices |->
                       IF i \in overdue_invoices
                       THEN [invoices[i] EXCEPT !.status = "overdue"]
                       ELSE invoices[i]]
     /\ last' = Outcome("sweep", "u1", 0, "ok", Reminders(overdue_invoices), {}, {}, None)
     /\ UNCHANGED <<payments, nextInv, nextPay, cache, today, rp, ct, summary, wk, rq>>

\* the calendar advances, up to a last day
TickTo(limit) ==
  /\ today < limit
  /\ today' = today + 1
  /\ UNCHANGED <<invoices, payments, nextInv, nextPay, cache, last, rp, ct, summary, wk, rq>>

(* ------------------- requests served one at a time -------------------- *)
Next ==
  \/ \E u \in Users, req \in CreateRequests : CreateInvoice(u, req)
  \/ \E u \in Users, i \in InvoiceIds : GetInvoice(u, i)
  \/ \E u \in Users, i \in InvoiceIds, upd \in LifecycleUpdates : UpdateInvoice(u, i, upd)
  \/ \E u \in Users, i \in InvoiceIds : DeleteInvoice(u, i)
  \/ \E u \in Users, i \in InvoiceIds : SendInvoice(u, i)
  \/ \E u \in Users, i \in InvoiceIds : MarkAsPaid(u, i)
  \/ \E u \in Users, i \in InvoiceIds, a \in PayAmounts : RecordPayment(u, i, a)
  \/ \E u \in Users, i \in InvoiceIds : GetInvoicePayments(u, i)
  \/ \E u \in Users, k \in PaymentIds : DeletePayment(u, k)
  \/ UpdateOverdueInvoices
  \/ TickTo(MaxDay)

Spec == Init /\ [][Next]_vars

(* ------------- record_payment, one store round trip per step --------- *)
Finished(p, result) == [rp EXCEPT ![p].pc = "done", ![p].result = result]

\* select(Invoice) scoped to the caller, then the cancelled check
RpLoad(p, u, i, amount) ==
  /\ rp[p].pc = "idle"
  /\ LET req == [rp[p] EXCEPT !.user = u, !.invoice_id = i, !.amount = amount]
     IN rp' = IF ~Owned(i, u)
              THEN [rp EXCEPT ![p] = [req EXCEPT !.pc = "done", !.result = "NotFoundException"]]
              ELSE IF PaymentRefused(invoices[i].status)
              THEN [rp EXCEPT ![p] = [req EXCEPT !.pc = "done", !.result = "BadRequestException"]]
              ELSE [rp EXCEPT ![p] = [req EXCEPT !.pc = "loaded",
                                                 !.total_amount = invoices[i].total_amount]]
  /\ UNCHANGED <<invoices, payments, nextInv, nextPay, cache, today, last, ct, summary, wk, rq>>

\* select(Payment) of the invoice, the sum and the over-payment check
RpSum(p) ==
  /\ rp[p].pc = "loaded"
  /\ LET total_paid == SumPaid(payments, rp[p].invoice_id) + rp[p].amount
     IN rp' = IF Overpays(total_paid, rp[p].total_amount)
              THEN Finished(p, "BadRequestException")
              ELSE [rp EXCEPT ![p].pc = "summed", ![p].total_paid = total_paid]
  /\ UNCHANGED <<invoices, payments, nextInv, nextPay, cache, today, last, ct, summary, wk, rq>>

\* Payment(...) and db.add: the row is pending in the session
RpAdd(p) ==
  /\ rp[p].pc = "summed"
  /\ rp' = [rp EXCEPT ![p].pc = "added"]
  /\ UNCHANGED <<invoices, payments, nextInv, nextPay, cache, today, last, ct, summary, wk, rq>>

\* the full-payment test, the pending status change and the publish
RpMark(p) ==
  /\ rp[p].pc = "added"
  /\ rp' = IF FullyPaid(rp[p].total_paid, rp[p].total_amount)
           THEN [rp EXCEPT ![p].pc = "marked", ![p].marks = TRUE,
                   ![p].published = publish(PaymentCompleted(rp[p].invoice_id,
                                      rp[p].user, rp[p].amount, rp[p].total_amount))]
           ELSE [rp EXCEPT ![p].pc = "marked"]
  /\ UNCHANGED <<invoices, payments, nextInv, nextPay, cache, today, last, ct, summary, wk, rq>>

CommittedInvoicesLosingStatus(p) == invoices

\* the invoices table after the commit of request p: the UPDATE of status
\* and paid_at is flushed in the transaction of the INSERT
CommittedInvoices(p) ==
  IF rp[p].marks
  THEN [invoices EXCEPT ![rp[p].invoice_id].status = "paid",
                        ![rp[p].invoice_id].paid_at = Some(today)]
  ELSE invoices

\* commit: the pending insert and the pending update become durable at once
RpCommit(p) ==
  /\ rp[p].pc = "marked"
  /\ nextPay <= MaxPayments
  /\ payments' = Put(payments, nextPay,
                     [invoice_id |-> rp[p].invoice_id, amount |-> rp[p].amount])
  /\ nextPay' = nextPay + 1
  /\ invoices' = CommittedInvoices(p)
  /\ rp' = Finished(p, "ok")
  /\ UNCHANGED <<nextInv, cache, today, last, ct, summary, wk, rq>>

\* the request dies (process killed, connection lost, publish or commit
\* raises): its session is discarded with everything pending in it
RpCrash(p) ==
  /\ rp[p].pc \in {"loaded", "summed", "added", "marked"}
  /\ rp' = Finished(p, "crashed")
  /\ UNCHANGED <<invoices, payments, nextInv, nextPay, cache, today, last, ct, summary, wk, rq>>

NextConc ==
  \/ \E u \in Users, req \in CreateRequests : CreateInvoice(u, req)
  \/ \E p \in Procs, u \in Users, i \in InvoiceIds, a \in PayAmounts : RpLoad(p, u, i, a)
  \/ \E p \in Procs : RpSum(p)
  \/ \E p \in Procs : RpAdd(p)
  \/ \E p \in Procs : RpMark(p)
  \/ \E p \in Procs : RpCommit(p)
  \/ \E p \in Procs : RpCrash(p)

SpecConc == Init /\ [][NextConc]_vars

(* --------------- create_invoice, number first, then commit ------------ *)
\* a create request p up to db.add: the checks, then the number generator
\* reads the count of the user's invoices and looks the number up
CnGenerate(p, u, req) ==
  /\ rp[p].pc \in {"idle", "done"}
  /\ nextInv <= NumProcs
  /\ IF ~ValidInvoiceCreate(req)
     THEN rp' = [rp EXCEPT ![p] = [IdleProc EXCEPT !.pc = "done", !.user = u,
                                                   !.result = "ValidationError"]]
     ELSE IF ~ClientBelongsTo(req.client_id, u)
     THEN rp' = [rp EXCEPT ![p] = [IdleProc EXCEPT !.pc = "done", !.user = u,
                                                   !.result = "BadRequestException"]]
     ELSE \E invoice_number \in generate_invoice_number(u) :
          rp' = [rp EXCEPT ![p] = [IdleProc EXCEPT
                                     !.pc = "numbered", !.user = u,
                                     !.pending = Some(NewInvoice(u, req, invoice_number))]]
  /\ UNCHANGED <<invoices, payments, nextInv, nextPay, cache, today, last, ct, summary, wk, rq>>

\* the commit of create request p (the column invoice_number carries no
\* unique constraint), then the pattern invalidation and the publish
CnCommit(p) ==
  /\ rp[p].pc = "numbered"
  /\ nextInv <= NumProcs
  /\ invoices' = Put(invoices, nextInv, rp[p].pending[1])
  /\ nextInv' = nextInv + 1
  /\ rp' = [rp EXCEPT ![p].pc = "done", ![p].result = "ok",
                       ![p].invoice_id = nextInv,
                       ![p].published =
                          publish(Event("invoices", "invoice.created", nextInv,
                                        rp[p].user, None,
                                        Some(rp[p].pending[1].total_amount), None,
                                        DefaultPriority))]
  /\ UNCHANGED <<payments, nextPay, cache, today, last, ct, summary, wk, rq>>

NumbersCreateRequests ==
  [client_id : Clients, due_date : {1}, status : {"draft"}, tax_rate : TaxRates,
   discount : Discounts, items : ItemLists]

NextNumbers ==
  \/ \E p \in Procs, u \in Users, req \in NumbersCreateRequests : CnGenerate(p, u, req)
  \/ \E p \in Procs : CnCommit(p)
  \/ \E u \in Users, i \in ConcInvoiceIds : DeleteInvoice(u, i)

SpecNumbers == Init /\ [][NextNumbers]_vars

(* ------- send_invoice and the sweep, one store round trip per step ---- *)
\* send request p: get_invoice and the checks
SnLoad(p, u, i) ==
  /\ rp[p].pc = "idle"
  /\ cache' = CacheAfterGet(i, u)
  /\ LET req == [rp[p] EXCEPT !.user = u, !.invoice_id = i]
     IN rp' = IF ~Owned(i, u)
              THEN [rp EXCEPT ![p] = [req EXCEPT !.pc = "done", !.result = "NotFoundException"]]
              ELSE IF SendRefused(invoices[i].status, invoices[i].client_id)
              THEN [rp EXCEPT ![p] = [req EXCEPT !.pc = "done", !.result = "BadRequestException"]]
              ELSE [rp EXCEPT ![p] = [req EXCEPT !.pc = "send_loaded",
                                                 !.total_amount = invoices[i].total_amount]]
  /\ UNCHANGED <<invoices, payments, nextInv, nextPay, today, last, ct, summary, wk, rq>>

\* send request p: the UPDATE of status and sent_at by id, the commit, the
\* cache delete and the publish
SnCommit(p) ==
  LET i == rp[p].invoice_id
  IN /\ rp[p].pc = "send_loaded"
     /\ i \in DOMAIN invoices
     /\ invoices' = [invoices EXCEPT ![i].status = "sent", ![i].sent_at = Some(today)]
     /\ cache' = [cache EXCEPT ![i] = None]
     /\ rp' = [rp EXCEPT ![p].pc = "done", ![p].result = "ok",
                          ![p].published =
                             publish(Event("emails", "email.invoice_sent", i, rp[p].user,
                                           None, Some(rp[p].total_amount), None,
                                           HighPriority))]
     /\ UNCHANGED <<payments, nextInv, nextPay, today, last, ct, summary, wk, rq>>

\* update_overdue_invoices up to its commit: the select, the status set on
\* the loaded rows, the publishes
SweepRead ==
  LET overdue_invoices == {i \in DOMAIN invoices : SweepSelects(invoices[i])}
  IN /\ wk.selected = None
     /\ wk' = [wk EXCEPT !.selected = Some(overdue_invoices),
                         !.round = Reminders(overdue_invoices)]
     /\ UNCHANGED <<invoices, payments, nextInv, nextPay, cache, today, last, rp, ct, summary, rq>>

\* the commit of the sweep: UPDATE ... SET status = overdue by id for every
\* loaded row
SweepCommit ==
  /\ wk.selected # None
  /\ invoices' = [i \in DOMAIN invoices |->
                    IF i \in wk.selected[1]
                    THEN [invoices[i] EXCEPT !.status = "overdue"]
                    ELSE invoices[i]]
  /\ wk' = [wk EXCEPT !.selected = None]
  /\ last' = Outcome("sweep", "u1", 0, "ok", wk.round, {}, {}, None)
  /\ UNCHANGED <<payments, nextInv, nextPay, cache, today, rp, ct, summary, rq>>

\* invoices of 0.55 due on day 1
RaceCreateRequests ==
  [client_id : Clients, due_date : {1}, status : {"draft"}, tax_rate : TaxRates,
   discount : Discounts, items : {<<[quantity |-> 1, unit_price |-> 50]>>}]

\* updates that cancel the invoice
RaceUpdates == UpdateRequests({"cancelled"}, {}, {}, {}, {}, {}) \ {[status |-> None,
  tax_rate |-> None, discount |-> None, due_date |-> None, client_id |-> None,
  items |-> None]}

NextRace ==
  \/ \E u \in Users, req \in RaceCreateRequests : CreateInvoice(u, req)
  \/ \E p \in Procs, u \in Users, i \in InvoiceIds : SnLoad(p, u, i)
  \/ \E p \in Procs : SnCommit(p)
  \/ \E u \in Users, i \in InvoiceIds : MarkAsPaid(u, i)
  \/ \E u \in Users, i \in InvoiceIds : RecordPayment(u, i, 55)
  \/ \E u \in Users, i \in InvoiceIds, upd \in RaceUpdates : UpdateInvoice(u, i, upd)
  \/ SweepRead
  \/ SweepCommit
  \/ TickTo(MaxDay)

SpecRace == Init /\ [][NextRace]_vars

(* ------------------- the calculator on its own ------------------------ *)
\* the orders the items of a list can be given in
Reorderings(items) ==
  { [k \in 1..Len(items) |-> items[f[k]]] : f \in Permutations(1..Len(items)) }

\* calculate_invoice_totals called on a list and on the same items in
\* another order
ComputeTotals(items, perm, tax_rate, discount) ==
  /\ ct' = [items |-> items, perm |-> perm, tax_rate |-> tax_rate,
            discount |-> discount,
            out |-> Some(calculate_invoice_totals(items, tax_rate, discount)),
            out_perm |-> Some(calculate_invoice_totals(perm, tax_rate, discount))]
  /\ UNCHANGED <<invoices, payments, nextInv, nextPay, cache, today, last, rp, summary, wk, rq>>

NextCalc ==
  \E items \in CalcItemLists, tax_rate \in CalcRates, discount \in CalcDiscounts :
    \E perm \in Reorderings(items) : ComputeTotals(items, perm, tax_rate, discount)

SpecCalc == Init /\ [][NextCalc]_vars

(* ------------------- payments and the recurring sweep ----------------- *)
SweepCreateRequests ==
  [client_id : Clients, due_date : Days, status : {"draft"}, tax_rate : TaxRates,
   discount : Discounts, items : ItemLists]

NextSweep ==
  \/ \E u \in Users, req \in SweepCreateRequests : CreateInvoice(u, req)
  \/ \E u \in Users, i \in InvoiceIds : SendInvoice(u, i)
  \/ \E u \in Users, i \in InvoiceIds, a \in PayAmounts : RecordPayment(u, i, a)
  \/ \E u \in Users, k \in PaymentIds : DeletePayment(u, k)
  \/ UpdateOverdueInvoices
  \/ TickTo(MaxDay)

\* PaymentWorker.start calls check_overdue_invoices in every round of its
\* loop: a sweep that would change something is not put off forever
SpecSweep == Init /\ [][NextSweep]_vars /\ WF_vars(UpdateOverdueInvoices)

(* --------------------------- PaymentWorker ---------------------------- *)
\* what can go wrong in a task: nothing, a store query, a publish, the commit
Faults == {"none", "store", "broker", "commit"}

\* PaymentWorker.start up to the loop: rabbitmq_client.connect is awaited
\* outside the try; when it raises, start raises, run_payment_worker logs
\* the crash and calls sys.exit(1), and nothing starts the process again
WorkerStart(reachable) ==
  /\ wk.pc = "start"
  /\ wk' = [wk EXCEPT !.pc = IF reachable THEN "overdue" ELSE "exited"]
  /\ UNCHANGED <<invoices, payments, nextInv, nextPay, cache, today, last, rp, ct, summary, rq>>

\* check_overdue_invoices: update_overdue_invoices in a session of its own;
\* an exception is logged, and the session closes without a commit
CheckOverdueInvoices(fault) ==
  LET overdue_invoices == {i \in DOMAIN invoices : SweepSelects(invoices[i])}
      reached == IF fault \in {"store", "broker"} THEN {} ELSE overdue_invoices
      raised == \/ fault = "store"
                \/ fault \in {"broker", "commit"} /\ overdue_invoices # {}
  IN /\ wk.pc = "overdue"
     /\ wk' = [wk EXCEPT !.pc = "due_soon", !.round = @ \o Reminders(reached)]
     /\ invoices' = IF raised THEN invoices
                    ELSE [i \in DOMAIN invoices |->
                            IF i \in overdue_invoices
                            THEN [invoices[i] EXCEPT !.status = "overdue"]
                            ELSE invoices[i]]
     /\ last' = Outcome("sweep", "u1", 0, IF raised THEN "logged" ELSE "ok",
                        Reminders(reached), {}, {}, None)
     /\ UNCHANGED <<payments, nextInv, nextPay, cache, today, rp, ct, summary, rq>>

DueSoonDays == 3
DueSoonPriority == 7

\* the rows send_upcoming_due_reminders publishes for
DueSoon(inv) ==
  /\ inv.status = "sent"
  /\ inv.due_date = today + DueSoonDays
  /\ ClientHasEmail[inv.client_id]

WeeklyDueAlways(days_overdue) == TRUE

\* send_weekly_overdue_reminders' test on the days past the due date
WeeklyDue(days_overdue) == days_overdue % 7 = 0

\* the rows send_weekly_overdue_reminders publishes for
Weekly(inv) ==
  /\ inv.status = "overdue"
  /\ WeeklyDue(today - inv.due_date)
  /\ ClientHasEmail[inv.client_id]

WorkerReminder(i, days_overdue, priority) ==
  Event("emails", "email.payment_reminder", i, invoices[i].user_id, None,
        Some(invoices[i].total_amount), Some(days_overdue), priority)

RECURSIVE WorkerReminders(_, _, _)
WorkerReminders(ids, weekly, priority) ==
  IF ids = {} THEN <<>>
  ELSE LET i == CHOOSE x \in ids : \A y \in ids : x <= y
           days_overdue == IF weekly THEN today - invoices[i].due_date
                           ELSE 0 - DueSoonDays
       IN publish(WorkerReminder(i, days_overdue, priority))
            \o WorkerReminders(ids \ {i}, weekly, priority)

\* send_upcoming_due_reminders; it writes nothing, an exception is logged
SendUpcomingDueReminders(fault) ==
  LET due == {i \in DOMAIN invoices : DueSoon(invoices[i])}
      raised == fault = "store" \/ (fault = "broker" /\ due # {})
  IN /\ wk.pc = "due_soon"
     /\ fault # "commit"
     /\ wk' = [wk EXCEPT !.pc = "weekly",
                         !.round = @ \o (IF raised THEN <<>>
                                         ELSE WorkerReminders(due, FALSE, DueSoonPriority))]
     /\ last' = Outcome("dueSoon", "u1", 0, IF raised THEN "logged" ELSE "ok",
                        IF raised THEN <<>>
                        ELSE WorkerReminders(due, FALSE, DueSoonPriority),
                        {}, {}, None)
     /\ UNCHANGED <<invoices, payments, nextInv, nextPay, cache, today, rp, ct, summary, rq>>

\* send_weekly_overdue_reminders; it writes nothing, an exception is logged
SendWeeklyOverdueReminders(fault) ==
  LET due == {i \in DOMAIN invoices : Weekly(invoices[i])}
      raised == fault = "store" \/ (fault = "broker" /\ due # {})
  IN /\ wk.pc = "weekly"
     /\ fault # "commit"
     /\ wk' = [wk EXCEPT !.pc = "sleep",
                         !.round = @ \o (IF raised THEN <<>>
                                         ELSE WorkerReminders(due, TRUE, ReminderPriority))]
     /\ last' = Outcome("weekly", "u1", 0, IF raised THEN "logged" ELSE "ok",
                        IF raised THEN <<>>
                        ELSE WorkerReminders(due, TRUE, ReminderPriority),
                        {}, {}, None)
     /\ UNCHANGED <<invoices, payments, nextInv, nextPay, cache, today, rp, ct, summary, rq>>

\* asyncio.sleep(check_interval), then the next round of the loop
WorkerSleep ==
  /\ wk.pc = "sleep"
  /\ wk' = [wk EXCEPT !.pc = "overdue", !.round = <<>>]
  /\ UNCHANGED <<invoices, payments, nextInv, nextPay, cache, today, last, rp, ct, summary, rq>>

\* invoices due on day 1 and on day 4
WorkerCreateRequests ==
  [client_id : Clients, due_date : {1, 4}, status : {"draft"}, tax_rate : TaxRates,
   discount : Discounts, items : {<<[quantity |-> 1, unit_price |-> 50]>>}]

NextWorker ==
  \/ \E u \in Users, req \in WorkerCreateRequests : CreateInvoice(u, req)
  \/ \E u \in Users, i \in InvoiceIds : SendInvoice(u, i)
  \/ TickTo(MaxWorkerDay)
  \/ \E reachable \in BOOLEAN : WorkerStart(reachable)
  \/ \E fault \in Faults : CheckOverdueInvoices(fault)
  \/ \E fault \in Faults : SendUpcomingDueReminders(fault)
  \/ \E fault \in Faults : SendWeeklyOverdueReminders(fault)
  \/ WorkerSleep

SpecWorker == Init /\ [][NextWorker]_vars

(* ------- InvoiceService, one await per step, with failing calls ------- *)
StepsInvalidatingFirst(op) ==
  IF op = "create" THEN <<"invalidate_pattern", "commit", "publish">>
  ELSE IF op = "update" THEN <<"delete", "invalidate_pattern", "commit", "publish">>
  ELSE IF op = "delete" THEN <<"delete", "invalidate_pattern", "commit">>
  ELSE IF op = "send" THEN <<"delete", "commit", "publish">>
  ELSE <<"delete", "invalidate_pattern", "commit", "publish">>

\* the awaited calls of each handler after its checks, in program order:
\* db.commit, redis_client.delete, redis_client.invalidate_pattern,
\* rabbitmq_client.publish
StepsOf(op) ==
  IF op = "create" THEN <<"commit", "invalidate_pattern", "publish">>
  ELSE IF op = "update" THEN <<"commit", "delete", "invalidate_pattern", "publish">>
  ELSE IF op = "delete" THEN <<"commit", "delete", "invalidate_pattern">>
  ELSE IF op = "send" THEN <<"commit", "delete", "publish">>
  ELSE <<"commit", "delete", "invalidate_pattern", "publish">>

\* a request that ended in its checks
Stopped(op, u, i, result) ==
  [IdleRequest EXCEPT !.pc = "done", !.op = op, !.user = u, !.invoice_id = i,
                      !.result = result]

\* a request past its checks: the session holds the row to write (or to
\* delete), nothing is committed yet
Started(op, u, i, pending, event) ==
  [IdleRequest EXCEPT !.pc = "running", !.at = 1, !.op = op, !.user = u,
                      !.invoice_id = i, !.pending = pending, !.event = event]

\* create_invoice up to db.add
RqCreate(u, req) ==
  /\ rq.pc # "running"
  /\ nextInv <= MaxInvoices
  /\ IF ~ValidInvoiceCreate(req)
     THEN rq' = Stopped("create", u, 0, "ValidationError")
     ELSE IF ~ClientBelongsTo(req.client_id, u)
     THEN rq' = Stopped("create", u, 0, "BadRequestException")
     ELSE \E invoice_number \in generate_invoice_number(u) :
          LET inv == NewInvoice(u, req, invoice_number)
          IN rq' = Started("create", u, nextInv, Some(inv),
                           Some(Event("invoices", "invoice.created", nextInv, u, None,
                                      Some(inv.total_amount), None, DefaultPriority)))
  /\ UNCHANGED <<invoices, payments, nextInv, nextPay, cache, today, last, rp, ct, summary, wk>>

\* get_invoice, the checks and the changes of a handler on a stored invoice
RqBegin(op, u, i, refused, pending, event) ==
  /\ rq.pc # "running"
  /\ cache' = CacheAfterGet(i, u)
  /\ rq' = IF ~Owned(i, u)
           THEN Stopped(op, u, i, IF op = "update" THEN "None"
                                  ELSE IF op = "delete" THEN "False"
                                  ELSE "NotFoundException")
           ELSE IF refused THEN Stopped(op, u, i, "BadRequestException")
           ELSE Started(op, u, i, pending, event)
  /\ UNCHANGED <<invoices, payments, nextInv, nextPay, today, last, rp, ct, summary, wk>>

RqUpdate(u, i, upd) ==
  RqBegin("update", u, i,
          Owned(i, u) /\ UpdateRefused(invoices[i].status),
          IF Owned(i, u) THEN Some(WithItems(Patched(invoices[i], upd), upd)) ELSE None,
          Some(Event("invoices", "invoice.updated", i, u, None, None, None,
                     DefaultPriority)))

RqDelete(u, i) ==
  RqBegin("delete", u, i, Owned(i, u) /\ DeleteRefused(invoices[i].status),
          None, None)

RqSend(u, i) ==
  RqBegin("send", u, i,
          Owned(i, u) /\ SendRefused(invoices[i].status, invoices[i].client_id),
          IF Owned(i, u)
          THEN Some([invoices[i] EXCEPT !.status = "sent", !.sent_at = Some(today)])
          ELSE None,
          IF Owned(i, u)
          THEN Some(Event("emails", "email.invoice_sent", i, u, None,
                          Some(invoices[i].total_amount), None, HighPriority))
          ELSE None)

RqMarkPaid(u, i) ==
  RqBegin("markPaid", u, i, Owned(i, u) /\ AlreadyPaid(invoices[i].status),
          IF Owned(i, u)
          THEN Some([invoices[i] EXCEPT !.status = "paid", !.paid_at = Some(today)])
          ELSE None,
          IF Owned(i, u)
          THEN Some(Event("invoices", "invoice.paid", i, u,
                          Some(invoices[i].total_amount), None, None, DefaultPriority))
          ELSE None)

\* the request after its awaited call number rq.at returned
Advanced(r) ==
  IF r.at = Len(StepsOf(r.op))
  THEN [r EXCEPT !.pc = "done", !.result = "ok"]
  ELSE [r EXCEPT !.at = @ + 1]

\* the next awaited call of the request: it returns (succeeds) or raises,
\* and an exception ends the handler where it stands
RqStep(succeeds) ==
  LET step == StepsOf(rq.op)[rq.at]
      i == rq.invoice_id
  IN /\ rq.pc = "running"
     /\ IF ~succeeds
        THEN /\ rq' = [rq EXCEPT !.pc = "done", !.result = "Exception"]
             /\ UNCHANGED <<invoices, payments, nextInv, cache>>
        ELSE IF step = "commit"
        THEN /\ invoices' = IF rq.op = "delete" THEN Drop(invoices, i)
                            ELSE Put(invoices, i, rq.pending[1])
             /\ payments' = IF rq.op = "delete"
                            THEN [k \in DOMAIN payments \ PaymentsOf(payments, i) |->
                                    payments[k]]
                            ELSE payments
             /\ nextInv' = IF rq.op = "create" THEN nextInv + 1 ELSE nextInv
             /\ rq' = Advanced([rq EXCEPT !.committed = TRUE])
             /\ UNCHANGED cache
        ELSE IF step = "delete"
        THEN /\ cache' = [cache EXCEPT ![i] = None]
             /\ rq' = Advanced([rq EXCEPT !.deleted = @ \cup {i}])
             /\ UNCHANGED <<invoices, payments, nextInv>>
        ELSE IF step = "invalidate_pattern"
        THEN /\ rq' = Advanced([rq EXCEPT !.patterns = @ \cup {rq.user}])
             /\ UNCHANGED <<invoices, payments, nextInv, cache>>
        ELSE /\ rq' = Advanced([rq EXCEPT !.published = publish(rq.event[1])])
             /\ UNCHANGED <<invoices, payments, nextInv, cache>>
     /\ UNCHANGED <<nextPay, today, last, rp, ct, summary, wk>>

\* the request is cancelled while it waits (the client went away)
RqAbort ==
  /\ rq.pc = "running"
  /\ rq' = [rq EXCEPT !.pc = "done", !.result = "aborted"]
  /\ UNCHANGED <<invoices, payments, nextInv, nextPay, cache, today, last, rp, ct, summary, wk>>

StepsCreateRequests ==
  [client_id : Clients, due_date : {1}, status : {"draft"}, tax_rate : TaxRates,
   discount : Discounts, items : {<<[quantity |-> 1, unit_price |-> 50]>>}]

\* updates that set the status to sent or cancelled, or nothing
StepsUpdates == UpdateRequests({"sent", "cancelled"}, {}, {}, {}, {}, {})

NextSteps ==
  \/ \E u \in Users, req \in StepsCreateRequests : RqCreate(u, req)
  \/ \E u \in Users, i \in InvoiceIds, upd \in StepsUpdates : RqUpdate(u, i, upd)
  \/ \E u \in Users, i \in InvoiceIds : RqDelete(u, i)
  \/ \E u \in Users, i \in InvoiceIds : RqSend(u, i)
  \/ \E u \in Users, i \in InvoiceIds : RqMarkPaid(u, i)
  \/ \E succeeds \in BOOLEAN : RqStep(succeeds)
  \/ RqAbort

SpecSteps == Init /\ [][NextSteps]_vars

(* ------------------------ reads through the cache --------------------- *)
\* the invoices of a user in a status
InStatus(u, st) ==
  {i \in DOMAIN invoices : invoices[i].user_id = u /\ invoices[i].status = st}

RECURSIVE SumTotals(_)
SumTotals(ids) ==
  IF ids = {} THEN 0
  ELSE LET i == CHOOSE x \in ids : TRUE
       IN invoices[i].total_amount + SumTotals(ids \ {i})

\* the statistics query of get_invoice_summary
StoreSummary(u) ==
  LET mine == {i \in DOMAIN invoices : invoices[i].user_id = u}
  IN [total_invoices |-> Cardinality(mine),
      total_revenue |-> SumTotals(mine),
      paid_invoices |-> Cardinality(InStatus(u, "paid")),
      pending_invoices |-> Cardinality(InStatus(u, "sent")),
      overdue_invoices |-> Cardinality(InStatus(u, "overdue")),
      draft_invoices |-> Cardinality(InStatus(u, "draft"))]

\* get_invoice_summary: a cached summary is returned as it is; otherwise
\* the store is queried and the answer cached
GetInvoiceSummary(u) ==
  LET cached == summary[u]
      out == IF cached # None THEN cached[1] ELSE StoreSummary(u)
  IN /\ summary' = [summary EXCEPT ![u] = Some(out)]
     /\ last' = [Outcome("summary", u, 0, "ok", <<>>, {}, {}, None)
                 EXCEPT !.returned = Some(out)]
     /\ UNCHANGED <<invoices, payments, nextInv, nextPay, cache, today, rp, ct, wk, rq>>

\* the entry of a user reaches its expire time (600 s) and is gone
ExpireSummary(u) ==
  /\ summary[u] # None
  /\ summary' = [summary EXCEPT ![u] = None]
  /\ UNCHANGED <<invoices, payments, nextInv, nextPay, cache, today, last, rp, ct, wk, rq>>

\* invoices of 0.55 due on day 1
CacheCreateRequests ==
  [client_id : Clients, due_date : {1}, status : {"draft"}, tax_rate : TaxRates,
   discount : Discounts, items : {<<[quantity |-> 1, unit_price |-> 50]>>}]

NextCache ==
  \/ \E u \in Users, req \in CacheCreateRequests : CreateInvoice(u, req)
  \/ \E u \in Users, i \in InvoiceIds : GetInvoice(u, i)
  \/ \E u \in Users, i \in InvoiceIds : SendInvoice(u, i)
  \/ \E u \in Users, i \in InvoiceIds : MarkAsPaid(u, i)
  \/ \E u \in Users, i \in InvoiceIds : RecordPayment(u, i, 55)
  \/ \E u \in Users, k \in PaymentIds : DeletePayment(u, k)
  \/ UpdateOverdueInvoices
  \/ TickTo(MaxDay)
  \/ \E u \in Users : GetInvoiceSummary(u)
  \/ \E u \in Users : ExpireSummary(u)

SpecCache == Init /\ [][NextCache]_vars

(* --------------- create and update with tax and discount ------------- *)
\* tax rates in percent and discounts (0 and 1.50) of the requests
TotalsRates == {0, 10}
TotalsDiscounts == {0, 150}

TotalsCreateRequests ==
  [client_id : Clients, due_date : {1}, status : {"draft"}, tax_rate : TotalsRates,
   discount : TotalsDiscounts, items : ItemLists]

\* updates that set the tax rate, the discount, the client, the items, or
\* several of them
TotalsUpdates ==
  UpdateRequests({}, TotalsRates, TotalsDiscounts, {}, Clients, ItemLists)

NextTotals ==
  \/ \E u \in Users, req \in TotalsCreateRequests : CreateInvoice(u, req)
  \/ \E u \in Users, i \in InvoiceIds, upd \in TotalsUpdates : UpdateInvoice(u, i, upd)
  \/ \E items \in ItemLists, tax_rate \in TotalsRates, discount \in TotalsDiscounts :
       ComputeTotals(items, items, tax_rate, discount)

SpecTotals == Init /\ [][NextTotals]_vars

(* ============================== claims ================================ *)
\* the claims' own arithmetic, in ten-thousandths of a currency unit
RECURSIVE LinesUpTo(_, _)
LinesUpTo(items, n) ==
  IF n = 0 THEN 0
  ELSE LinesUpTo(items, n - 1) + items[n].quantity * items[n].unit_price * 100

AfterDiscount(items, discount) ==
  LET d == LinesUpTo(items, Len(items)) - discount * 100
  IN IF d > 0 THEN d ELSE 0

Stored == DOMAIN invoices
Kept == DOMAIN invoices \cap DOMAIN invoices'

\* C1: requests served one at a time: for every stored invoice the amounts
\* of its stored payments sum to at most its stored total_amount.
C1_PaymentsWithinTotal ==
  \A i \in Stored : SumPaid(payments, i) <= invoices[i].total_amount

\* C2: concurrent record_payment requests: the payments committed by the
\* requests that passed the over-payment check never sum to more than the
\* total_amount of their invoice.
C2_ConcurrentPaymentsWithinTotal ==
  \A p \in Procs :
    (rp[p].pc = "done" /\ rp[p].result = "ok")
      => SumPaid(payments, rp[p].invoice_id) <= invoices[rp[p].invoice_id].total_amount

\* C3: record_payment on an invoice of the caller whose existing payments
\* plus the new amount exceed total_amount fails with the conflict error,
\* stores no payment, leaves every invoice (status, paid_at) as it was and
\* publishes no event.
C3_OverpaymentRejected ==
  [][\A u \in Users, i \in InvoiceIds, a \in PayAmounts :
       (/\ last'.op = "recordPayment"
        /\ Owned(i, u)
        /\ SumPaid(payments, i) + a > invoices[i].total_amount
        /\ RecordPayment(u, i, a))
         => /\ last'.result = "BadRequestException"
            /\ payments' = payments
            /\ invoices' = invoices
            /\ last'.published = <<>>]_vars

\* an over-payment has just been refused on an invoice that is not cancelled
C3_Witness ==
  /\ last.op = "recordPayment"
  /\ last.result = "BadRequestException"
  /\ last.inv \in Stored
  /\ invoices[last.inv].status # "cancelled"
  /\ \E a \in PayAmounts :
       SumPaid(payments, last.inv) + a > invoices[last.inv].total_amount

\* C4: a successful record_payment that brings the payments to at least
\* total_amount leaves the invoice paid with paid_at set and hands exactly
\* one payment.completed event with the payment's amount to the broker; one
\* that stays below total_amount leaves the status and publishes nothing.
C4_CompletionPublishes ==
  [][\A u \in Users, i \in InvoiceIds, a \in PayAmounts :
       (last'.op = "recordPayment" /\ last'.result = "ok" /\ RecordPayment(u, i, a))
         => IF SumPaid(payments', i) >= invoices[i].total_amount
            THEN /\ invoices'[i].status = "paid"
                 /\ invoices'[i].paid_at # None
                 /\ Len(last'.published) = 1
                 /\ last'.published[1].routing_key = "payment.completed"
                 /\ last'.published[1].invoice_id = i
                 /\ last'.published[1].amount = Some(a)
            ELSE /\ invoices'[i].status = invoices[i].status
                 /\ last'.published = <<>>]_vars

C6_CancelledAbsorbing ==
  [][\A i \in Kept :
       invoices[i].status = "cancelled" => invoices'[i].status = "cancelled"]_vars

\* C7: a paid invoice changes status only in a delete_payment of one of its
\* payments that leaves the remaining payments below total_amount, and the
\* new status is sent; every other step leaves it paid.
C7_PaidLeavesOnlyByDeletion ==
  [][\A i \in Kept :
       (invoices[i].status = "paid" /\ invoices'[i].status # "paid")
         => /\ \E u \in Users, k \in DOMAIN payments :
                 payments[k].invoice_id = i /\ DeletePayment(u, k)
            /\ SumPaid(payments', i) < invoices[i].total_amount
            /\ invoices'[i].status = "sent"]_vars

\* a delete_payment has just reverted a paid invoice
C7_Witness ==
  /\ last.op = "deletePayment"
  /\ last.before = Some("paid")
  /\ last.inv \in Stored
  /\ invoices[last.inv].status = "sent"

LifecycleGraph ==
  { <<"draft", "sent">>, <<"sent", "paid">>, <<"sent", "overdue">>,
    <<"overdue", "paid">>, <<"draft", "cancelled">>, <<"sent", "cancelled">>,
    <<"paid", "sent">> }

\* C8: every status change follows the lifecycle graph (draft to sent, sent
\* to paid or overdue, overdue to paid, draft or sent to cancelled), and
\* paid to sent happens only in a payment deletion.
C8_LifecycleGraph ==
  [][\A i \in Kept :
       invoices[i].status # invoices'[i].status
         => /\ <<invoices[i].status, invoices'[i].status>> \in LifecycleGraph
            /\ invoices[i].status = "paid"
                 => \E u \in Users, k \in DOMAIN payments : DeletePayment(u, k)]_vars

\* C9: mark_as_paid by the owner of an invoice that is not paid sets status
\* paid and paid_at and publishes one invoice.paid event; on an invoice that
\* is paid (a second call) it fails with the conflict error, leaves every
\* invoice as it was and publishes nothing.
C9_MarkPaidOnce ==
  [][\A u \in Users, i \in InvoiceIds :
       (Owned(i, u) /\ last'.op = "markPaid" /\ MarkAsPaid(u, i))
         => IF invoices[i].status # "paid"
            THEN /\ last'.result = "ok"
                 /\ invoices'[i].status = "paid"
                 /\ invoices'[i].paid_at # None
                 /\ Len(last'.published) = 1
                 /\ last'.published[1].routing_key = "invoice.paid"
                 /\ last'.published[1].invoice_id = i
            ELSE /\ last'.result = "BadRequestException"
                 /\ invoices' = invoices
                 /\ last'.published = <<>>]_vars

\* a mark_as_paid has just been refused on a paid invoice
C9_Witness ==
  /\ last.op = "markPaid"
  /\ last.result = "BadRequestException"
  /\ last.inv \in Stored
  /\ invoices[last.inv].status = "paid"
  /\ invoices[last.inv].paid_at # None

\* C10: update_invoice by the owner of a paid or cancelled invoice fails
\* with the conflict error and changes nothing: invoices (fields, items,
\* totals) and payments are as before, no cache key is deleted and no event
\* is published.
C10_UpdateRefusedChangesNothing ==
  [][\A u \in Users, i \in InvoiceIds :
       (/\ Owned(i, u)
        /\ invoices[i].status \in {"paid", "cancelled"}
        /\ last'.op = "update"
        /\ \E upd \in LifecycleUpdates : UpdateInvoice(u, i, upd))
         => /\ last'.result = "BadRequestException"
            /\ invoices' = invoices
            /\ payments' = payments
            /\ last'.deleted = {} /\ last'.patterns = {}
            /\ \A j \in InvoiceIds : cache[j] # None => cache'[j] # None
            /\ last'.published = <<>>]_vars

\* an update has just been refused on a cancelled invoice
C10_Witness ==
  /\ last.op = "update"
  /\ last.result = "BadRequestException"
  /\ last.before = Some("cancelled")
  /\ last.inv \in Stored
  /\ invoices[last.inv].status = "cancelled"

\* C11: delete by the owner of a paid invoice fails with the conflict error
\* and the invoice, its items and its payments stay stored; on an invoice in
\* any other status it removes the invoice together with its items.
C11_DeleteRefusesPaid ==
  [][\A u \in Users, i \in InvoiceIds :
       (Owned(i, u) /\ last'.op = "delete" /\ DeleteInvoice(u, i))
         => IF invoices[i].status = "paid"
            THEN /\ last'.result = "BadRequestException"
                 /\ i \in DOMAIN invoices'
                 /\ invoices'[i] = invoices[i]
                 /\ payments' = payments
            ELSE /\ last'.result = "True"
                 /\ i \notin DOMAIN invoices']_vars

\* a delete has just been refused on a paid invoice that has payments
C11_Witness ==
  /\ last.op = "delete"
  /\ last.result = "BadRequestException"
  /\ last.inv \in Stored
  /\ invoices[last.inv].status = "paid"
  /\ Len(invoices[last.inv].items) >= 1
  /\ PaymentsOf(payments, last.inv) # {}

\* C12: send succeeds only on a draft of the caller whose client has an
\* email: it sets status sent and sent_at and publishes exactly one
\* email.invoice_sent event with a priority above the default; in every
\* other case it fails, no invoice changes and no event is published.
C12_SendOnlyDraftWithEmail ==
  [][\A u \in Users, i \in InvoiceIds :
       (last'.op = "send" /\ SendInvoice(u, i))
         => IF /\ Owned(i, u)
               /\ invoices[i].status = "draft"
               /\ ClientHasEmail[invoices[i].client_id]
            THEN /\ last'.result = "ok"
                 /\ invoices'[i].status = "sent"
                 /\ invoices'[i].sent_at # None
                 /\ Len(last'.published) = 1
                 /\ last'.published[1].routing_key = "email.invoice_sent"
                 /\ last'.published[1].invoice_id = i
                 /\ last'.published[1].priority > DefaultPriority
            ELSE /\ last'.result # "ok"
                 /\ invoices' = invoices
                 /\ last'.published = <<>>]_vars

\* a send has just been refused on a draft whose client has no email
C12_Witness ==
  /\ last.op = "send"
  /\ last.result = "BadRequestException"
  /\ last.inv \in Stored
  /\ invoices[last.inv].status = "draft"
  /\ invoices[last.inv].sent_at = None
  /\ ~ClientHasEmail[invoices[last.inv].client_id]

C19_DeletePaymentReverts ==
  [][\A u \in Users, k \in PaymentIds :
       (/\ last'.op = "deletePayment"
        /\ k \in DOMAIN payments
        /\ Owned(payments[k].invoice_id, u)
        /\ invoices[payments[k].invoice_id].status = "paid"
        /\ DeletePayment(u, k))
         => LET i == payments[k].invoice_id
            IN /\ k \notin DOMAIN payments'
               /\ IF SumPaid(payments', i) < invoices[i].total_amount
                  THEN /\ invoices'[i].status = "sent"
                       /\ invoices'[i].paid_at = None
                  ELSE /\ invoices'[i].status = "paid"
                       /\ invoices'[i].paid_at = invoices[i].paid_at
               /\ invoices'[i].status # "overdue"]_vars

\* a payment deletion has just reverted a paid invoice whose due date is in
\* the past
C19_Witness ==
  /\ last.op = "deletePayment"
  /\ last.result = "True"
  /\ last.before = Some("paid")
  /\ last.inv \in Stored
  /\ invoices[last.inv].due_date < today
  /\ invoices[last.inv].status = "sent"
  /\ invoices[last.inv].paid_at = None

\* a payment deletion has just left a paid invoice paid
C19_StaysPaid ==
  /\ last.op = "deletePayment"
  /\ last.result = "True"
  /\ last.before = Some("paid")
  /\ last.inv \in Stored
  /\ invoices[last.inv].status = "paid"

\* C20: deletePayment with a payment id that is not stored, or that belongs
\* to an invoice of another user, returns false and changes no payment and
\* no invoice.
C20_DeletePaymentNotFound ==
  [][\A u \in Users, k \in PaymentIds :
       (/\ last'.op = "deletePayment"
        /\ (k \notin DOMAIN payments
              \/ invoices[payments[k].invoice_id].user_id # u)
        /\ DeletePayment(u, k))
         => /\ last'.result = "False"
            /\ payments' = payments
            /\ invoices' = invoices]_vars

\* a deletion has just been refused while the stored payments belong to
\* invoices of other users
C20_Witness ==
  /\ last.op = "deletePayment"
  /\ last.result = "False"
  /\ payments # <<>>
  /\ \A k \in DOMAIN payments : invoices[payments[k].invoice_id].user_id # last.user

\* C14: after any sequence of creates and updates every stored invoice has
\* subtotal = the sum of quantity * unit_price over its items and
\* total_amount = max(0, subtotal - discount) * (1 + tax_rate / 100) at
\* currency precision, also after an update of only the discount or only
\* the tax rate.
C14_TotalsFollowFields ==
  \A i \in Stored :
    LET inv == invoices[i]
        base == AfterDiscount(inv.items, inv.discount)
        exact == base + (base * inv.tax_rate) \div 100
    IN /\ inv.subtotal * 100 = LinesUpTo(inv.items, Len(inv.items))
       /\ inv.total_amount = (exact + 50) \div 100

\* C16: the totalAmount computeTotals returns and the total_amount stored
\* on every invoice are never negative, also when the discount is larger
\* than the subtotal.
C16_TotalNeverNegative ==
  /\ ct.out # None => ct.out[1].total_amount >= 0
  /\ \A i \in Stored : invoices[i].total_amount >= 0

\* the calculator has been called with a discount above the subtotal, and an
\* invoice is stored whose discount is above its subtotal
C16_Witness ==
  /\ ct.out # None
  /\ ct.discount * 100 > LinesUpTo(ct.items, Len(ct.items))
  /\ \E i \in Stored :
       /\ invoices[i].discount * 100 > LinesUpTo(invoices[i].items, Len(invoices[i].items))
       /\ invoices[i].total_amount = 0

(* ----------------------- claims on the calculator --------------------- *)
ScenarioItems == <<[quantity |-> 2, unit_price |-> 5000]>>

\* C15: computeTotals returns subtotal = the sum of quantity * unit_price,
\* taxAmount = max(0, subtotal - discount) * taxRate / 100 and totalAmount =
\* max(0, subtotal - discount) + taxAmount; items 2 x 50.00 at rate 10 give
\* 100.00, 10.00, 110.00 with discount 0 and tax 0, total 0 with discount 150.
C15_ComputeTotals ==
  ct.out # None =>
    LET out == ct.out[1]
        base == AfterDiscount(ct.items, ct.discount)
    IN /\ out.subtotal = LinesUpTo(ct.items, Len(ct.items))
       /\ out.tax_amount * 100 = base * ct.tax_rate
       /\ out.total_amount = base + out.tax_amount
       /\ (ct.items = ScenarioItems /\ ct.tax_rate = 10 /\ ct.discount = 0)
            => out = [subtotal |-> 1000000, tax_amount |-> 100000,
                      total_amount |-> 1100000]
       /\ (ct.items = ScenarioItems /\ ct.tax_rate = 10 /\ ct.discount = 15000)
            => (out.tax_amount = 0 /\ out.total_amount = 0)

\* the calculator has been called with a discount above the subtotal and a
\* tax rate above zero
C15_Witness ==
  /\ ct.out # None
  /\ ct.items = ScenarioItems /\ ct.tax_rate = 10 /\ ct.discount = 15000
  /\ ct.out[1].subtotal = 1000000

\* C17: computeTotals returns the same subtotal, taxAmount and totalAmount
\* for every order the items of a list are given in.
C17_OrderInvariant ==
  ct.out # None => ct.out_perm = ct.out

\* the calculator has been called on two different items in both orders
C17_Witness ==
  /\ ct.out # None
  /\ Len(ct.items) = 2
  /\ ct.items[1] # ct.items[2]
  /\ ct.perm = <<ct.items[2], ct.items[1]>>

\* C18: the totalAmount computeTotals returns has exactly two decimal places:
\* it is the exact total rounded half-up to hundredths, once.
C18_TotalHasTwoDecimals ==
  ct.out # None =>
    LET base == AfterDiscount(ct.items, ct.discount)
        exact == base + (base * ct.tax_rate) \div 100
    IN /\ ct.out[1].total_amount % 100 = 0
       /\ ct.out[1].total_amount = ((exact + 50) \div 100) * 100

(* --------------------- claims on refusals and the sweep --------------- *)
\* C21: record_payment on an invoice that does not exist or belongs to
\* another user ends with NotFoundException, and on a cancelled invoice of
\* the caller with BadRequestException (the conflict error); in both cases
\* no payment is stored and every invoice row is unchanged.
C21_RecordPaymentRefusals ==
  [][\A u \in Users, i \in InvoiceIds, a \in PayAmounts :
       (last'.op = "recordPayment" /\ RecordPayment(u, i, a)) =>
         /\ (i \notin Stored \/ invoices[i].user_id # u) =>
              /\ last'.result = "NotFoundException"
              /\ payments' = payments /\ invoices' = invoices
         /\ (i \in Stored /\ invoices[i].user_id = u
               /\ invoices[i].status = "cancelled") =>
              /\ last'.result = "BadRequestException"
              /\ payments' = payments /\ invoices' = invoices]_vars

\* a payment that would fit was refused on a cancelled invoice of the caller
C21_Witness ==
  /\ last.op = "recordPayment" /\ last.result = "BadRequestException"
  /\ last.inv \in Stored
  /\ invoices[last.inv].user_id = last.user
  /\ invoices[last.inv].status = "cancelled"
  /\ \E a \in PayAmounts :
       SumPaid(payments, last.inv) + a <= invoices[last.inv].total_amount

CacheContents(i) ==
  {None} \cup
  { Some([value |-> [id |-> i, user_id |-> w,
                     invoice_number |-> [seq |-> 1, suffix |-> None],
                     status |-> st, total_amount |-> t],
          expire |-> 1800]) :
      w \in Users, st \in Statuses, t \in {55, 110} }

\* C28: get_invoice returns the row the store holds for the id and the
\* caller (nothing when there is none), whatever the cache holds: the call
\* on any other cache content returns the same; and after a read that found
\* the row, the cache entry of the id holds the stored id, owner, number,
\* status and total with a lifetime of 1800 seconds.
C28_GetInvoiceIgnoresCache ==
  [][\A u \in Users, i \in InvoiceIds :
       (last'.op = "getInvoice" /\ GetInvoice(u, i)) =>
         LET row == IF i \in Stored /\ invoices[i].user_id = u
                    THEN Some(invoices[i]) ELSE None
         IN /\ last'.returned = row
            /\ \A c \in CacheContents(i) : get_invoice(c, u, i).returned = row
            /\ row # None =>
                 cache'[i] = Some([value |-> [id |-> i,
                                              user_id |-> invoices[i].user_id,
                                              invoice_number |-> invoices[i].invoice_number,
                                              status |-> invoices[i].status,
                                              total_amount |-> invoices[i].total_amount],
                                   expire |-> 1800])
            /\ row = None => cache'[i] = cache[i]]_vars

\* a user read an invoice of another user while the cache held the owner's
\* entry, which was stale: nothing was returned
C28_Witness ==
  /\ last.op = "getInvoice" /\ last.returned = None
  /\ last.inv \in Stored
  /\ cache[last.inv] # None
  /\ cache[last.inv][1].value.user_id # last.user
  /\ cache[last.inv][1].value.status # invoices[last.inv].status

\* what each operation answers when the id does not exist
AnswerForMissing(op) ==
  IF op \in {"getInvoice", "update"} THEN "None"
  ELSE IF op \in {"delete", "deletePayment"} THEN "False"
  ELSE "NotFoundException"

NothingDone(op, u, i) ==
  /\ last' = Outcome(op, u, i, AnswerForMissing(op), <<>>, {}, {}, None)
  /\ invoices' = invoices /\ payments' = payments /\ cache' = cache

\* C29: get, update, delete, send, markPaid, recordPayment, list payments
\* and deletePayment, called by a user on an invoice (or on a payment of an
\* invoice) that exists and belongs to another user, answer exactly as on
\* an id that does not exist, and leave every invoice, item, payment and
\* cache entry as it was and publish nothing.
C29_ForeignAsMissing ==
  [][/\ \A u \in Users, i \in InvoiceIds :
          (i \notin Stored \/ invoices[i].user_id # u) =>
            /\ (last'.op = "getInvoice" /\ GetInvoice(u, i))
                 => NothingDone("getInvoice", u, i)
            /\ (last'.op = "update" /\ \E upd \in LifecycleUpdates : UpdateInvoice(u, i, upd))
                 => NothingDone("update", u, i)
            /\ (last'.op = "delete" /\ DeleteInvoice(u, i))
                 => NothingDone("delete", u, i)
            /\ (last'.op = "send" /\ SendInvoice(u, i))
                 => NothingDone("send", u, i)
            /\ (last'.op = "markPaid" /\ MarkAsPaid(u, i))
                 => NothingDone("markPaid", u, i)
            /\ (last'.op = "recordPayment" /\ \E a \in PayAmounts : RecordPayment(u, i, a))
                 => NothingDone("recordPayment", u, i)
            /\ (last'.op = "listPayments" /\ GetInvoicePayments(u, i))
                 => NothingDone("listPayments", u, i)
     /\ \A u \in Users, k \in PaymentIds :
          (k \notin DOMAIN payments \/ invoices[payments[k].invoice_id].user_id # u) =>
            ((last'.op = "deletePayment" /\ DeletePayment(u, k))
               => NothingDone("deletePayment", u, 0))]_vars

\* a user asked for the payments of an invoice of another user, which has
\* payments
C29_Witness ==
  /\ last.op = "listPayments" /\ last.result = "NotFoundException"
  /\ last.inv \in Stored
  /\ invoices[last.inv].user_id # last.user
  /\ PaymentsOf(payments, last.inv) # {}

\* C30: every stored invoice references a client of the user who owns the
\* invoice.
C30_ClientOfOwner ==
  \A i \in Stored : ClientOwner[invoices[i].client_id] = invoices[i].user_id

\* C27: a summary served to a user equals the statistics of the user's
\* invoices in the store at the time of the read.
C27_SummaryFromStore ==
  last.op = "summary" => last.returned = Some(StoreSummary(last.user))

\* delete_payment has just reverted invoice i from paid to sent, and its
\* due date is past
Reverted(i) ==
  /\ last.op = "deletePayment" /\ last.inv = i /\ last.before = Some("paid")
  /\ i \in Stored
  /\ invoices[i].status = "sent"
  /\ invoices[i].due_date < today

C24_WeeklyOnlyOnMultiplesOfSeven ==
  [][(last'.op = "weekly" /\ \E fault \in Faults : SendWeeklyOverdueReminders(fault)) =>
       LET pub == last'.published
       IN /\ \A k \in 1..Len(pub) :
               /\ pub[k].routing_key = "email.payment_reminder"
               /\ pub[k].invoice_id \in Stored
               /\ invoices[pub[k].invoice_id].status = "overdue"
               /\ \E n \in 0..MaxWorkerDay :
                    today - invoices[pub[k].invoice_id].due_date = 7 * n
          /\ \A i \in Stored :
               (\A n \in 0..MaxWorkerDay : today - invoices[i].due_date # 7 * n) =>
                 \A k \in 1..Len(pub) : pub[k].invoice_id # i]_vars

\* the weekly run has published a reminder for an invoice 7 days overdue
C24_Witness ==
  /\ last.op = "weekly" /\ Len(last.published) = 1
  /\ last.published[1].days_overdue = Some(7)
  /\ invoices[last.published[1].invoice_id].status = "overdue"
  /\ today - invoices[last.published[1].invoice_id].due_date = 7

\* C25: the payment worker process never terminates.
C25_WorkerNeverExits == wk.pc # "exited"

(* ---------------- claims on the order of commit and cache ------------- *)
\* C26: create, update, delete, send and mark_as_paid delete a cache key or
\* invalidate a pattern only in a step that follows their successful commit;
\* a request that was refused, was aborted or whose commit raised has
\* deleted no key and invalidated no pattern.
C26_InvalidationAfterCommit ==
  [][/\ ( \/ \E j \in InvoiceIds : cache[j] # None /\ cache'[j] = None
          \/ rq'.deleted \ rq.deleted # {}
          \/ rq'.patterns \ rq.patterns # {} )
         => rq.pc = "running" /\ rq.committed
     /\ (rq'.pc = "done" /\ ~rq'.committed)
         => rq'.deleted = {} /\ rq'.patterns = {}]_vars

\* the commit of an update raised while the cache held the invoice: the
\* entry is still there
C26_Witness ==
  /\ rq.pc = "done" /\ rq.op = "update" /\ rq.result = "Exception"
  /\ ~rq.committed
  /\ cache[rq.invoice_id] # None

(* ------------------ claims on timestamps and on items ----------------- *)
\* C38: every stored invoice has paid_at set exactly when its status is
\* paid.
C38_PaidAtIffPaid ==
  \A i \in Stored : (invoices[i].paid_at # None) <=> (invoices[i].status = "paid")

\* C39: every stored invoice whose status is sent or overdue has sent_at
\* set.
C39_SentHasSentAt ==
  \A i \in Stored :
    invoices[i].status \in {"sent", "overdue"} => invoices[i].sent_at # None

\* C40: an accepted update without an items list leaves the items and the
\* stored subtotal, tax_amount and total_amount of the invoice as they
\* were; an accepted update with an items list leaves exactly the supplied
\* items, in their order, each with total = quantity * unit_price.
C40_UpdateItemsFrame ==
  [][\A u \in Users, i \in InvoiceIds :
       (last'.op = "update" /\ last'.result = "ok"
          /\ last'.user = u /\ last'.inv = i) =>
         \A upd \in TotalsUpdates :
           UpdateInvoice(u, i, upd) =>
             IF upd.items = None
             THEN /\ invoices'[i].items = invoices[i].items
                  /\ invoices'[i].subtotal = invoices[i].subtotal
                  /\ invoices'[i].tax_amount = invoices[i].tax_amount
                  /\ invoices'[i].total_amount = invoices[i].total_amount
             ELSE /\ Len(invoices'[i].items) = Len(upd.items[1])
                  /\ \A k \in 1..Len(upd.items[1]) :
                       /\ invoices'[i].items[k].quantity = upd.items[1][k].quantity
                       /\ invoices'[i].items[k].unit_price = upd.items[1][k].unit_price
                       /\ invoices'[i].items[k].total =
                            upd.items[1][k].quantity * upd.items[1][k].unit_price]_vars

\* an update without items has changed the tax rate of an invoice: the
\* stored tax_amount is still the one of the old rate
C40_Witness ==
  /\ last.op = "update" /\ last.result = "ok"
  /\ last.inv \in Stored
  /\ invoices[last.inv].tax_rate = 10
  /\ invoices[last.inv].discount = 0
  /\ invoices[last.inv].subtotal > 0
  /\ invoices[last.inv].tax_amount = 0

\* C37: the events published in one round of the payment worker's loop
\* (sweep, due-soon reminders, weekly reminders) hold at most one
\* email.payment_reminder per invoice.
C37_OneReminderPerRound ==
  \A i \in InvoiceIds :
    Cardinality({k \in 1..Len(wk.round) :
                   /\ wk.round[k].routing_key = "email.payment_reminder"
                   /\ wk.round[k].invoice_id = i}) <= 1

(* ------------------- claims on events and on failures ----------------- *)
\* C32: a handler that committed a change it announces, and ended by
\* returning or by an exception, has handed the event to the broker.
C32_CommittedEventDelivered ==
  (rq.pc = "done" /\ rq.committed /\ rq.event # None
     /\ rq.result \in {"ok", "Exception"})
    => rq.published = <<rq.event[1]>>

\* C33: a handler whose commit succeeded and that was not cancelled returns
\* its successful result, whatever happens in its cache and broker calls.
C33_FailureAfterCommitSwallowed ==
  (rq.pc = "done" /\ rq.committed /\ rq.result # "aborted") => rq.result = "ok"

\* C34: every email.payment_reminder a run of the sweep has published
\* announces a committed transition: the invoice is overdue in the store.
C34_SweepEventAfterCommit ==
  last.op = "sweep" =>
    \A k \in 1..Len(last.published) :
      /\ last.published[k].invoice_id \in Stored
      /\ invoices[last.published[k].invoice_id].status = "overdue"

C35_SweepKeepsPaidAndCancelled ==
  [][\A i \in Kept :
       invoices[i].status \in {"paid", "cancelled"}
         => invoices'[i].status # "overdue"]_vars

\* C36: of the send requests on one invoice at most one has succeeded and
\* published email.invoice_sent.
C36_OneSendSucceeds ==
  \A i \in InvoiceIds :
    Cardinality({p \in Procs : /\ rp[p].pc = "done" /\ rp[p].result = "ok"
                               /\ rp[p].invoice_id = i
                               /\ rp[p].published # <<>>}) <= 1
====
